---- MODULE Spec2Model ----
(***************************************************************************)
(* The zapdriver core (core.go): a zapcore.Core that wraps another core,   *)
(* keeps permanent labels (added through With) and temporary labels (added *)
(* through Write), and rewrites every record before the wrapped core       *)
(* writes it.                                                              *)
(*                                                                         *)
(* Representation.                                                         *)
(*  - A key is the sequence of its dot-separated segments: "labels.a" is   *)
(*    <<"labels", "a">>.                                                   *)
(*  - A text (message, stack) is the sequence of its lines, a line the     *)
(*    sequence of its tokens; a token is either white space or a maximal   *)
(*    run of non-space characters that was put there in one piece.         *)
(*  - A label store (map[string]string) is a set of <<key, value>> pairs   *)
(*    with pairwise distinct keys.                                         *)
(*  - *labels values shared between goroutines live in `heap`, indexed by  *)
(*    their address; the *labels a call builds for itself are values in    *)
(*    the call's frame.                                                    *)
(*  - Every section that holds the mutex of a shared *labels is one        *)
(*    action: no such section takes the mutex of a second shared *labels.  *)
(*                                                                         *)
(* Specifications.                                                         *)
(*  - Spec: two goroutines call With and Write on the decorators, their    *)
(*    steps interleaved. Check and Sync read nothing that changes and      *)
(*    write nothing shared; they are left to SeqSpec.                      *)
(*  - SeqSpec: one goroutine makes one call after the other, of all four   *)
(*    operations, and `hist` remembers the Write that returned last.       *)
(*  - WriteSpec: one goroutine calls With and Write, with the fields,      *)
(*    entries and configurations that the rewriting of a record tells      *)
(*    apart.                                                               *)
(*  - LockSpec: two goroutines call Write, the first one also With on the  *)
(*    first decorator, and the sections of Write under the mutex of the    *)
(*    temporary labels are taken apart: the                                *)
(*    mutex is taken, every iteration of the loop over a map is a step,    *)
(*    the mutex is given back.                                             *)
(*  - LiveSpec: the steps of LockSpec on fewer decorators, with fairness:  *)
(*    a goroutine that can take its next step takes it, a goroutine that   *)
(*    waits for a mutex gets it if it is free again and again, and the     *)
(*    wrapped core's Write returns.                                        *)
(***************************************************************************)
EXTENDS Integers, Sequences, FiniteSets, TLC

VARIABLES
    cores,   \* the decorators built so far, by number (1 is WrapCore's)
    heap,    \* the stores of the shared *labels, by address
    thr,     \* each goroutine's frame: the call it is in and where
    hist     \* history, written by SeqSpec only: the Write that returned last

vars == <<cores, heap, thr, hist>>

\* -------------------------------------------------------------- bounds
MaxCores == 3

\* the decorators of LiveSpec
MaxLiveCores == 2

\* the goroutines that log; SeqSpec and WriteSpec let only the first one run
Threads == {1, 2}

\* ------------------------------------------------------------ keys, text
labelsPrefix == "labels"
labelsKey == <<"logging", "googleapis", "com/labels">>
sourceKey == <<"logging", "googleapis", "com/sourceLocation">>
serviceContextKey == <<"serviceContext">>
contextKey == <<"context">>

StanzaKeys == {sourceKey, serviceContextKey, contextKey}

Spaces == {" ", "\t"}

EmptyText == << <<>> >>

\* a + b on strings
Concat(a, b) ==
    SubSeq(a, 1, Len(a) - 1) \o << a[Len(a)] \o b[1] >> \o Tail(b)

\* "\n\ngoroutine 1 [running]:\n"
PanicHeader ==
    << <<>>, <<>>, <<"goroutine", " ", "1", " ", "[running]:">>, <<>> >>

\* (?m)^(\S+)$ : a whole line that is one run of non-space characters
functionNamePattern(line) ==
    /\ Len(line) > 0
    /\ \A i \in 1 .. Len(line) : line[i] \notin Spaces

\* every line that is not empty gets the marker
ReplaceAllStringAnyLine(stack) ==
    [i \in 1 .. Len(stack) |->
        IF Len(stack[i]) > 0 THEN stack[i] \o <<"(...)">> ELSE stack[i]]

\* functionNamePattern.ReplaceAllString(stack, "$1(...)")
ReplaceAllString(stack) ==
    [i \in 1 .. Len(stack) |->
        IF functionNamePattern(stack[i]) THEN stack[i] \o <<"(...)">>
        ELSE stack[i]]

\* ---------------------------------------------------------- label stores
Keys(store) == {p[1] : p \in store}

\* a loop that fills only the keys dst does not hold yet
OverlayKeepsOld(dst, src) ==
    dst \cup {p \in src : p[1] \notin Keys(dst)}

\* for k, v := range src { dst[k] = v }
Overlay(dst, src) ==
    {p \in dst : p[1] \notin Keys(src)} \cup src

newLabels == {}

\* labels.reset(): the store is emptied under the write lock
reset(store) == {}

\* ----------------------------------------------------------- the fields
Field(key, str, obj) == [Key |-> key, String |-> str, Obj |-> obj]

\* strings.HasPrefix(f.Key, "labels.")
isLabelField(f) ==
    /\ Len(f.Key) >= 2
    /\ f.Key[1] = labelsPrefix

RECURSIVE FirstLabels(_, _)
\* the first segment "labels" that a dot follows, or 0
FirstLabels(key, i) ==
    IF i >= Len(key) THEN 0
    ELSE IF key[i] = labelsPrefix THEN i
    ELSE FirstLabels(key, i + 1)

\* the key is stored as it is
StripPrefixKept(key) == key

\* strings.Replace(key, "labels.", "", 1)
StripPrefix(key) ==
    LET i == FirstLabels(key, 1)
    IN  IF i = 0 THEN key
        ELSE SubSeq(key, 1, i - 1) \o SubSeq(key, i + 1, Len(key))

RECURSIVE extractFrom(_, _, _, _)
extractFrom(fields, i, lbls, out) ==
    IF i > Len(fields) THEN [lbls |-> lbls, out |-> out]
    ELSE IF ~isLabelField(fields[i])
         THEN extractFrom(fields, i + 1, lbls, Append(out, fields[i]))
         ELSE extractFrom(fields, i + 1,
                 Overlay(lbls, {<<StripPrefix(fields[i].Key), fields[i].String>>}),
                 out)

\* the label fields are read and left among the fields
extractLabelsKeepsAll(fields) ==
    [lbls |-> extractFrom(fields, 1, newLabels, <<>>).lbls, out |-> fields]

extractLabels(fields) == extractFrom(fields, 1, newLabels, <<>>)

HasKey(fields, key) == \E i \in 1 .. Len(fields) : fields[i].Key = key

\* labelsField(l): the aggregate labels object
labelsField(lbls) == Field(labelsKey, "", lbls)

\* mergeLabelFields(fields, l): the aggregate is appended, also when empty
mergeLabelFields(fields, lbls) == Append(fields, labelsField(lbls))

SourceLocation(pc, file, line, ok) ==
    Field(sourceKey, "",
          {<< <<"function">>, pc >>, << <<"file">>, file >>, << <<"line">>, line >>})

ServiceContext(name, version) ==
    Field(serviceContextKey, "",
          {<< <<"service">>, name >>, << <<"version">>, version >>})

ErrorReport(pc, file, line, ok) ==
    Field(contextKey, "",
          {<< <<"reportLocation">>, pc >>, << <<"filePath">>, file >>,
           << <<"lineNumber">>, line >>})

withSourceLocationAlways(ent, fields) ==
    IF ~ent.Caller.Defined THEN fields
    ELSE Append(fields, SourceLocation(ent.Caller.PC, ent.Caller.File,
                                       ent.Caller.Line, TRUE))

withSourceLocation(ent, fields) ==
    IF HasKey(fields, sourceKey) THEN fields
    ELSE IF ~ent.Caller.Defined THEN fields
    ELSE Append(fields, SourceLocation(ent.Caller.PC, ent.Caller.File,
                                       ent.Caller.Line, TRUE))

withServiceContext(name, version, fields) ==
    IF HasKey(fields, serviceContextKey) THEN fields
    ELSE Append(fields, ServiceContext(name, version))

withErrorReport(ent, fields) ==
    IF HasKey(fields, contextKey) THEN fields
    ELSE IF ~ent.Caller.Defined THEN fields
    ELSE Append(fields, ErrorReport(ent.Caller.PC, ent.Caller.File,
                                    ent.Caller.Line, TRUE))

\* driverConfig
Config(report, name, version) ==
    [ReportAllErrors |-> report, ServiceName |-> name, ServiceVersion |-> version]

ErrorLevel == 2

\* a level predicate that holds of every level
AnyLevelEnabled(lvl) == TRUE

\* zapcore.ErrorLevel.Enabled(lvl)
ErrorLevelEnabled(lvl) == lvl >= ErrorLevel

\* Write, lines 143-155: the field set built from the call's non-label
\* fields and the merged labels
BuildFieldsNoFallback(config, ent, fields, all) ==
    LET f1 == mergeLabelFields(fields, all)
        f2 == withSourceLocation(ent, f1)
        f3 == IF config.ServiceName # ""
              THEN withServiceContext(config.ServiceName, config.ServiceVersion, f2)
              ELSE f2
    IN  IF config.ReportAllErrors /\ ErrorLevelEnabled(ent.Level)
        THEN withErrorReport(ent, f3)
        ELSE f3

\* the fallback service context is appended for every reported error
BuildFieldsFallbackAppended(config, ent, fields, all) ==
    LET f1 == mergeLabelFields(fields, all)
        f2 == withSourceLocation(ent, f1)
        f3 == IF config.ServiceName # ""
              THEN withServiceContext(config.ServiceName, config.ServiceVersion, f2)
              ELSE f2
    IN  IF config.ReportAllErrors /\ ErrorLevelEnabled(ent.Level)
        THEN Append(withErrorReport(ent, f3),
                    ServiceContext("unknown", config.ServiceVersion))
        ELSE f3

BuildFields(config, ent, fields, all) ==
    LET f1 == mergeLabelFields(fields, all)
        f2 == withSourceLocation(ent, f1)
        f3 == IF config.ServiceName # ""
              THEN withServiceContext(config.ServiceName, config.ServiceVersion, f2)
              ELSE f2
    IN  IF config.ReportAllErrors /\ ErrorLevelEnabled(ent.Level)
        THEN LET f4 == withErrorReport(ent, f3)
             IN  IF config.ServiceName = ""
                 THEN withServiceContext("unknown", config.ServiceVersion, f4)
                 ELSE f4
        ELSE f3

\* Write, lines 160-170: the stack moves into the message
StackRewrite(ent) ==
    IF ent.Stack # EmptyText
    THEN [ent EXCEPT
            !.Message = Concat(Concat(ent.Message, PanicHeader),
                               ReplaceAllString(ent.Stack)),
            !.Stack = EmptyText]
    ELSE ent

\* ------------------------------------------------- the wrapped zapcore.Core
\* A handle of the wrapped core: its level and the fields attached to it.
Backend(level, context) == [level |-> level, context |-> context]

\* c.Core.With(fields)
BackendWith(b, fields) == Backend(b.level, b.context \o fields)

\* c.Enabled(lvl): the embedded core's LevelEnabler
Enabled(b, lvl) == lvl >= b.level

\* what the wrapped core's Write and Sync may return
BackendResults == {"nil", "EIO"}

\* ------------------------------------------------------- Check, the entry
NoCaller == [Defined |-> FALSE, PC |-> "", File |-> "", Line |-> ""]
SomeCaller == [Defined |-> TRUE, PC |-> "main.foo", File |-> "main.go", Line |-> "10"]

Entry(level, msg, caller, stack) ==
    [Level |-> level, Message |-> msg, Caller |-> caller, Stack |-> stack]

NoEntry == Entry(0, EmptyText, NoCaller, EmptyText)

\* a nil *CheckedEntry
NilCE == [Entry |-> NoEntry, cores |-> <<>>]

\* ce.AddCore(ent, core)
AddCore(ce, ent, c) ==
    IF ce = NilCE THEN [Entry |-> ent, cores |-> <<c>>]
    ELSE [ce EXCEPT !.cores = Append(@, c)]

CheckAlways(backend, c, ent, ce) == AddCore(ce, ent, c)

\* core.Check
Check(backend, c, ent, ce) ==
    IF Enabled(backend, ent.Level) THEN AddCore(ce, ent, c) ELSE ce

Registered(ce, c) == \E i \in 1 .. Len(ce.cores) : ce.cores[i] = c

\* ------------------------------------------------------------ the inputs
LabelField(k, v) == Field(<<labelsPrefix, k>>, v, {})
PlainField(k, v) == Field(<<k>>, v, {})
UserStanza(key) == Field(key, "user", {})

Boom == << <<"boom">> >>

\* "main.foo\n\tmain.go:10"
Stack1 == << <<"main.foo">>, <<"\t", "main.go:10">> >>

\* "main.foo\nmain.bar"
Stack2 == << <<"main.foo">>, <<"main.bar">> >>

\* "main.foo\n\tmain.go:10 +0x1d\n\nmain.bar"
Stack3 ==
    << <<"main.foo">>, <<"\t", "main.go:10", " ", "+0x1d">>, <<>>, <<"main.bar">> >>

\* what Spec passes to With and to Write, and how it starts
WithFields ==
    { <<LabelField("a", "1")>>,
      <<LabelField("b", "2"), PlainField("req", "7")>> }

WriteFields ==
    { <<LabelField("a", "3")>>,
      <<PlainField("msg", "x"), LabelField("b", "4")>> }

Entries == { Entry(ErrorLevel, Boom, SomeCaller, Stack1) }

Configs == { Config(TRUE, "svc", "v1") }

BackendLevels == {0}

\* what SeqSpec passes, and how it starts
SeqWithFields ==
    WithFields \cup { <<PlainField("req", "7"), LabelField("a", "2")>> }

SeqEntries ==
    { Entry(0, Boom, SomeCaller, EmptyText),
      Entry(ErrorLevel, Boom, SomeCaller, Stack1) }

SeqConfigs == { Config(FALSE, "", ""), Config(TRUE, "svc", "v1") }

SeqBackendLevels == {0, ErrorLevel}

CheckedEntries(ent) == {NilCE, [Entry |-> ent, cores |-> <<0>>]}

\* what WriteSpec passes, and how it starts
WideFields ==
    { <<>>,
      <<LabelField("a", "3"), LabelField("b", "4")>>,
      <<LabelField("b", "4"), LabelField("a", "3")>>,
      <<LabelField("a", "3"), PlainField("msg", "x"), LabelField("a", "5")>>,
      <<LabelField("a", "5"), LabelField("a", "3"), PlainField("msg", "x")>>,
      <<Field(<<labelsPrefix, labelsPrefix, "a">>, "6", {}), PlainField("msg", "x")>>,
      <<UserStanza(sourceKey)>>,
      <<UserStanza(serviceContextKey), LabelField("a", "3")>>,
      <<PlainField("msg", "x"), UserStanza(contextKey)>>,
      <<UserStanza(contextKey), UserStanza(sourceKey), UserStanza(serviceContextKey)>>,
      <<UserStanza(sourceKey), UserStanza(sourceKey)>> }

WideEntries ==
    { Entry(level, Boom, caller, stack) :
         level \in {0, ErrorLevel}, caller \in {NoCaller, SomeCaller},
         stack \in {EmptyText, Stack2} }
    \cup { Entry(ErrorLevel + 1, Boom, SomeCaller, Stack3) }

WideConfigs ==
    { Config(report, name, "v1") : report \in BOOLEAN, name \in {"", "svc"} }

\* ----------------------------------------------------------- the frames
Idle ==
    [pc |-> "idle", op |-> "none", core |-> 0,
     ent |-> NoEntry,     \* the entry passed
     args |-> <<>>,       \* the fields passed
     fields |-> <<>>,     \* the local variable `fields`
     lbls |-> {},         \* the local *labels of extractLabels
     all |-> {},          \* the local *labels of allLabels
     sent |-> NoEntry,    \* the entry handed to the wrapped core
     ce0 |-> NilCE,       \* the checked entry passed to Check
     ce |-> NilCE,        \* the checked entry Check returned
     child |-> 0,         \* the decorator With returned
     berr |-> "none",     \* what the wrapped core returned
     ret |-> "none",      \* what the call returned
     nwrite |-> 0,        \* calls of the wrapped core's Write by this call
     todo |-> {},         \* LockSpec: the labels the loop of Write is yet to store
     done |-> {},         \* LockSpec: the keys the loop of allLabels has read
     \* history, of With: the parent's temporary labels when With ran; of
     \* Write in LockSpec: the labels of each other Write on the decorator
     \* that had taken the mutex to store them when this one's snapshot ended
     seen |-> {}]

InWrite(f) == f.op = "Write" /\ f.pc \in {"merged", "perm", "built", "reset"}

Returned(f, op) == f.op = op /\ f.pc = "returned"

CoreIds == 1 .. Len(cores)

permStore(c) == heap[cores[c].permLabels]
tempStore(c) == heap[cores[c].tempLabels]

\* ------------------------------------------------------------------ Init
\* WrapCore: the first decorator, with two empty label sets and its options
WrapCore(backend, config) ==
    [Core |-> backend, permLabels |-> 1, tempLabels |-> 2, config |-> config,
     parent |-> 0, given |-> {}]

NoHist == [core |-> 0, lbls |-> {}, ret |-> "none"]

Start(levels, configs) ==
    /\ \E lvl \in levels, config \in configs :
          cores = <<WrapCore(Backend(lvl, <<>>), config)>>
    /\ heap = <<newLabels, newLabels>>
    /\ thr = [t \in Threads |-> Idle]
    /\ hist = NoHist

Init == Start(BackendLevels, Configs)

SeqInit == Start(SeqBackendLevels, SeqConfigs)

WideInit == Start(BackendLevels, WideConfigs)

\* ------------------------------------------------------------------ With
\* With, lines 94-104 and 108: the child's permanent labels. The parent's are
\* copied into a new *labels, then the extracted ones are put over them.
\* Returns the heap and the address the child holds.
WithPermShared(h, parent, lbls) ==
    [heap |-> [h EXCEPT ![parent.permLabels] = Overlay(@, lbls)],
     perm |-> parent.permLabels]

WithPermWithTemp(h, parent, lbls) ==
    [heap |-> Append(h, Overlay(Overlay(Overlay(newLabels, h[parent.permLabels]),
                                        h[parent.tempLabels]), lbls)),
     perm |-> Len(h) + 1]

WithPerm(h, parent, lbls) ==
    [heap |-> Append(h, Overlay(Overlay(newLabels, h[parent.permLabels]), lbls)),
     perm |-> Len(h) + 1]

\* With, line 109: the address of the child's temporary labels, a new *labels
\* (h is the heap that holds the child's permanent labels already)
WithTempShared(h, parent) == parent.tempLabels

WithTemp(h, parent) == Len(h) + 1

\* With, line 110
WithConfig(parent) == parent.config

With(t, c, fields) ==
    /\ thr[t].pc = "idle"
    /\ c \in CoreIds
    /\ Len(cores) < MaxCores
    /\ LET ex == extractLabels(fields)
           p  == WithPerm(heap, cores[c], ex.lbls)
           new == [Core |-> BackendWith(cores[c].Core, ex.out),
                   permLabels |-> p.perm,
                   tempLabels |-> WithTemp(p.heap, cores[c]),
                   config |-> WithConfig(cores[c]),
                   parent |-> c, given |-> ex.lbls]
       IN  /\ heap' = Append(p.heap, newLabels)
           /\ cores' = Append(cores, new)
           /\ thr' = [thr EXCEPT ![t] =
                        [Idle EXCEPT !.pc = "returned", !.op = "With", !.core = c,
                                     !.args = fields, !.fields = ex.out,
                                     !.lbls = ex.lbls, !.child = Len(cores) + 1,
                                     !.seen = tempStore(c)]]

\* ----------------------------------------------------------------- Check
DoCheck(t, c, ent, ce) ==
    /\ thr[t].pc = "idle"
    /\ c \in CoreIds
    /\ thr' = [thr EXCEPT ![t] =
                 [Idle EXCEPT !.pc = "returned", !.op = "Check", !.core = c,
                              !.ent = ent, !.ce0 = ce,
                              !.ce = Check(cores[c].Core, c, ent, ce)]]
    /\ UNCHANGED <<cores, heap>>

\* ------------------------------------------------------------------ Sync
\* Sync, line 177: what Sync returns of the wrapped core's result
SyncResult(err) == err

Sync(t, c) ==
    /\ thr[t].pc = "idle"
    /\ c \in CoreIds
    /\ \E err \in BackendResults :
          thr' = [thr EXCEPT ![t] =
                    [Idle EXCEPT !.pc = "returned", !.op = "Sync", !.core = c,
                                 !.berr = err, !.ret = SyncResult(err)]]
    /\ UNCHANGED <<cores, heap>>

\* ----------------------------------------------------------------- Write
\* Lines 131-141: the labels are taken out of the fields and put into the
\* decorator's temporary set. The logger calls Write only on the cores that
\* Check registered on the checked entry.
WriteMerge(t, c, ent, fields) ==
    /\ thr[t].pc = "idle"
    /\ c \in CoreIds
    /\ Registered(Check(cores[c].Core, c, ent, NilCE), c)
    /\ LET ex == extractLabels(fields)
       IN  /\ heap' = [heap EXCEPT ![cores[c].tempLabels] = Overlay(@, ex.lbls)]
           /\ thr' = [thr EXCEPT ![t] =
                        [Idle EXCEPT
                           !.pc = "merged", !.op = "Write", !.core = c,
                           !.ent = ent, !.args = fields,
                           !.fields = ex.out, !.lbls = ex.lbls]]
    /\ UNCHANGED cores

\* allLabels, lines 181-188: the permanent labels go into a new *labels
AllLabelsPerm(t) ==
    /\ thr[t].op = "Write" /\ thr[t].pc = "merged"
    /\ thr' = [thr EXCEPT ![t].pc = "perm",
                          ![t].all = Overlay(newLabels, permStore(thr[t].core))]
    /\ UNCHANGED <<cores, heap>>

\* a snapshot of the labels this call passed, not of the temporary set
AllLabelsOwn(t) ==
    /\ thr[t].op = "Write" /\ thr[t].pc = "perm"
    /\ LET all == Overlay(thr[t].all, thr[t].lbls)
       IN  thr' = [thr EXCEPT
                     ![t].pc = "built",
                     ![t].all = all,
                     ![t].fields = BuildFields(cores[thr[t].core].config,
                                               thr[t].ent, thr[t].fields, all)]
    /\ UNCHANGED <<cores, heap>>

\* allLabels, lines 190-197, and Write, lines 143-155: the temporary labels
\* go over them, and the fields are built
AllLabelsTemp(t) ==
    /\ thr[t].op = "Write" /\ thr[t].pc = "perm"
    /\ LET all == Overlay(thr[t].all, tempStore(thr[t].core))
       IN  thr' = [thr EXCEPT
                     ![t].pc = "built",
                     ![t].all = all,
                     ![t].fields = BuildFields(cores[thr[t].core].config,
                                               thr[t].ent, thr[t].fields, all)]
    /\ UNCHANGED <<cores, heap>>

\* Write, line 157
TempResetSkipped(t) ==
    /\ thr[t].op = "Write" /\ thr[t].pc = "built"
    /\ thr' = [thr EXCEPT ![t].pc = "reset"]
    /\ UNCHANGED <<cores, heap>>

TempReset(t) ==
    /\ thr[t].op = "Write" /\ thr[t].pc = "built"
    /\ heap' = [heap EXCEPT ![cores[thr[t].core].tempLabels] = reset(@)]
    /\ thr' = [thr EXCEPT ![t].pc = "reset"]
    /\ UNCHANGED cores

\* Write, line 172: what Write returns of the wrapped core's result
WriteResultNil(err) == "nil"

WriteResult(err) == err

\* the labels of a call whose write failed are in the temporary set again
CoreWriteKeepsOnError(t) ==
    /\ thr[t].op = "Write" /\ thr[t].pc = "reset"
    /\ \E err \in BackendResults :
          /\ thr' = [thr EXCEPT ![t].pc = "returned",
                                ![t].sent = StackRewrite(thr[t].ent),
                                ![t].nwrite = @ + 1,
                                ![t].berr = err,
                                ![t].ret = WriteResult(err)]
          /\ heap' = IF err = "nil" THEN heap
                     ELSE [heap EXCEPT ![cores[thr[t].core].tempLabels]
                                          = Overlay(@, thr[t].lbls)]
    /\ UNCHANGED cores

\* Write, lines 159-172: the stack is rewritten and the wrapped core writes
CoreWrite(t) ==
    /\ thr[t].op = "Write" /\ thr[t].pc = "reset"
    /\ \E err \in BackendResults :
          thr' = [thr EXCEPT ![t].pc = "returned",
                             ![t].sent = StackRewrite(thr[t].ent),
                             ![t].nwrite = @ + 1,
                             ![t].berr = err,
                             ![t].ret = WriteResult(err)]
    /\ UNCHANGED <<cores, heap>>

\* the caller takes the result; the goroutine is free for its next call
Return(t) ==
    /\ thr[t].pc = "returned"
    /\ thr' = [thr EXCEPT ![t] = Idle]
    /\ UNCHANGED <<cores, heap>>

\* ------------------------------------------------------------------ Next
Next ==
    \/ \E t \in Threads, c \in CoreIds, fields \in WithFields :
          With(t, c, fields) /\ UNCHANGED hist
    \/ \E t \in Threads, c \in CoreIds, ent \in Entries, fields \in WriteFields :
          WriteMerge(t, c, ent, fields) /\ UNCHANGED hist
    \/ \E t \in Threads : AllLabelsPerm(t) /\ UNCHANGED hist
    \/ \E t \in Threads : AllLabelsTemp(t) /\ UNCHANGED hist
    \/ \E t \in Threads : TempReset(t) /\ UNCHANGED hist
    \/ \E t \in Threads : CoreWrite(t) /\ UNCHANGED hist
    \/ \E t \in Threads : Return(t) /\ UNCHANGED hist

Spec == Init /\ [][Next]_vars

\* the Write that returns is remembered
Remember(t) ==
    hist' = IF thr[t].op = "Write"
            THEN [core |-> thr[t].core, lbls |-> thr[t].lbls, ret |-> thr[t].ret]
            ELSE hist

SeqNext ==
    \/ \E c \in CoreIds, fields \in SeqWithFields :
          With(1, c, fields) /\ UNCHANGED hist
    \/ \E c \in CoreIds, ent \in SeqEntries :
          \E ce \in CheckedEntries(ent) : DoCheck(1, c, ent, ce) /\ UNCHANGED hist
    \/ \E c \in CoreIds : Sync(1, c) /\ UNCHANGED hist
    \/ \E c \in CoreIds, ent \in SeqEntries, fields \in WriteFields :
          WriteMerge(1, c, ent, fields) /\ UNCHANGED hist
    \/ AllLabelsPerm(1) /\ UNCHANGED hist
    \/ AllLabelsTemp(1) /\ UNCHANGED hist
    \/ TempReset(1) /\ UNCHANGED hist
    \/ CoreWrite(1) /\ UNCHANGED hist
    \/ Return(1) /\ Remember(1)

SeqSpec == SeqInit /\ [][SeqNext]_vars

WideNext ==
    \/ \E c \in CoreIds, fields \in WithFields :
          With(1, c, fields) /\ UNCHANGED hist
    \/ \E c \in CoreIds, ent \in WideEntries, fields \in WideFields :
          WriteMerge(1, c, ent, fields) /\ UNCHANGED hist
    \/ AllLabelsPerm(1) /\ UNCHANGED hist
    \/ AllLabelsTemp(1) /\ UNCHANGED hist
    \/ TempReset(1) /\ UNCHANGED hist
    \/ CoreWrite(1) /\ UNCHANGED hist
    \/ Return(1) /\ UNCHANGED hist

WriteSpec == WideInit /\ [][WideNext]_vars

\* -------------------------------------------------------------- LockSpec
\* what LockSpec passes to Write
LockFields ==
    { <<LabelField("a", "3")>>,
      <<LabelField("a", "5"), LabelField("b", "4")>>,
      <<PlainField("msg", "x")>> }

\* the goroutines from mutex.Lock() on, the Unlock left to the end of the call
WritersToTheEnd(x) ==
    {t \in Threads : /\ thr[t].op = "Write"
                     /\ thr[t].pc \in {"locked", "merged", "perm", "rlocked",
                                       "built", "reset"}
                     /\ cores[thr[t].core].tempLabels = x}

\* the goroutines between mutex.Lock() and mutex.Unlock() of the *labels at x
Writers(x) ==
    {t \in Threads : thr[t].pc = "locked" /\ cores[thr[t].core].tempLabels = x}

\* the goroutines between mutex.RLock() and mutex.RUnlock() of the *labels at x
Readers(x) ==
    {t \in Threads : thr[t].pc = "rlocked" /\ cores[thr[t].core].tempLabels = x}

\* a Lock that does not wait
LockNoWait(x) == TRUE

\* mutex.Lock() returns: no goroutine holds the mutex
Lock(x) == Writers(x) = {} /\ Readers(x) = {}

\* mutex.RLock() returns: no goroutine holds the mutex for writing
RLock(x) == Writers(x) = {}

\* Write, lines 131-135: the labels are taken out of the fields
WriteCall(t, c, ent, fields) ==
    /\ thr[t].pc = "idle"
    /\ c \in CoreIds
    /\ Registered(Check(cores[c].Core, c, ent, NilCE), c)
    /\ LET ex == extractLabels(fields)
       IN  thr' = [thr EXCEPT ![t] =
                     [Idle EXCEPT
                        !.pc = "called", !.op = "Write", !.core = c,
                        !.ent = ent, !.args = fields,
                        !.fields = ex.out, !.lbls = ex.lbls, !.todo = ex.lbls]]
    /\ UNCHANGED <<cores, heap>>

\* Write, line 136: the mutex of the temporary labels is taken
TempLock(t) ==
    /\ thr[t].op = "Write" /\ thr[t].pc = "called"
    /\ Lock(cores[thr[t].core].tempLabels)
    /\ thr' = [thr EXCEPT ![t].pc = "locked"]
    /\ UNCHANGED <<cores, heap>>

\* Write, lines 137-139: one iteration, over the map in any order
MergeStore(t) ==
    /\ thr[t].pc = "locked"
    /\ \E p \in thr[t].todo :
          /\ heap' = [heap EXCEPT ![cores[thr[t].core].tempLabels] = Overlay(@, {p})]
          /\ thr' = [thr EXCEPT ![t].todo = @ \ {p}]
    /\ UNCHANGED cores

\* Write, lines 140-141
MergeUnlock(t) ==
    /\ thr[t].pc = "locked"
    /\ thr[t].todo = {}
    /\ thr' = [thr EXCEPT ![t].pc = "merged"]
    /\ UNCHANGED <<cores, heap>>

\* allLabels, line 190
TempRLock(t) ==
    /\ thr[t].op = "Write" /\ thr[t].pc = "perm"
    /\ RLock(cores[thr[t].core].tempLabels)
    /\ thr' = [thr EXCEPT ![t].pc = "rlocked"]
    /\ UNCHANGED <<cores, heap>>

\* allLabels, lines 191-193: one iteration, over the map in any order
RangeTemp(t) ==
    /\ thr[t].pc = "rlocked"
    /\ \E p \in tempStore(thr[t].core) :
          /\ p[1] \notin thr[t].done
          /\ thr' = [thr EXCEPT ![t].all = Overlay(@, {p}),
                                ![t].done = @ \cup {p[1]}]
    /\ UNCHANGED <<cores, heap>>

\* the labels of each other Write on the decorator of t that holds or has
\* held the mutex to store them and has not returned
MergedBeside(t) ==
    { thr[u].lbls :
        u \in { u \in Threads \ {t} :
                  /\ thr[u].op = "Write" /\ thr[u].core = thr[t].core
                  /\ thr[u].pc \in {"locked", "merged", "perm", "rlocked",
                                    "built", "reset"} } }

\* allLabels, lines 194-197, and Write, lines 143-155: the loop has ended,
\* the mutex is given back and the fields are built
TempRUnlock(t) ==
    /\ thr[t].pc = "rlocked"
    /\ Keys(tempStore(thr[t].core)) \subseteq thr[t].done
    /\ thr' = [thr EXCEPT
                 ![t].pc = "built",
                 ![t].fields = BuildFields(cores[thr[t].core].config,
                                           thr[t].ent, thr[t].fields, thr[t].all),
                 ![t].seen = MergedBeside(t)]
    /\ UNCHANGED <<cores, heap>>

\* Write, line 157: reset takes the mutex of the temporary labels
LockedReset(t) ==
    /\ thr[t].op = "Write" /\ thr[t].pc = "built"
    /\ Lock(cores[thr[t].core].tempLabels)
    /\ TempReset(t)

LockNext ==
    \/ \E fields \in WithFields : With(1, 1, fields) /\ UNCHANGED hist
    \/ \E t \in Threads, c \in CoreIds, ent \in Entries, fields \in LockFields :
          WriteCall(t, c, ent, fields) /\ UNCHANGED hist
    \/ \E t \in Threads : TempLock(t) /\ UNCHANGED hist
    \/ \E t \in Threads : MergeStore(t) /\ UNCHANGED hist
    \/ \E t \in Threads : MergeUnlock(t) /\ UNCHANGED hist
    \/ \E t \in Threads : AllLabelsPerm(t) /\ UNCHANGED hist
    \/ \E t \in Threads : TempRLock(t) /\ UNCHANGED hist
    \/ \E t \in Threads : RangeTemp(t) /\ UNCHANGED hist
    \/ \E t \in Threads : TempRUnlock(t) /\ UNCHANGED hist
    \/ \E t \in Threads : LockedReset(t) /\ UNCHANGED hist
    \/ \E t \in Threads : CoreWrite(t) /\ UNCHANGED hist
    \/ \E t \in Threads : Return(t) /\ UNCHANGED hist

LockSpec == Init /\ [][LockNext]_vars

\* -------------------------------------------------------------- LiveSpec
LiveNext ==
    \/ \E fields \in WithFields :
          Len(cores) < MaxLiveCores /\ With(1, 1, fields) /\ UNCHANGED hist
    \/ \E t \in Threads, c \in CoreIds, ent \in Entries, fields \in WriteFields :
          WriteCall(t, c, ent, fields) /\ UNCHANGED hist
    \/ \E t \in Threads : TempLock(t) /\ UNCHANGED hist
    \/ \E t \in Threads : MergeStore(t) /\ UNCHANGED hist
    \/ \E t \in Threads : MergeUnlock(t) /\ UNCHANGED hist
    \/ \E t \in Threads : AllLabelsPerm(t) /\ UNCHANGED hist
    \/ \E t \in Threads : TempRLock(t) /\ UNCHANGED hist
    \/ \E t \in Threads : RangeTemp(t) /\ UNCHANGED hist
    \/ \E t \in Threads : TempRUnlock(t) /\ UNCHANGED hist
    \/ \E t \in Threads : LockedReset(t) /\ UNCHANGED hist
    \/ \E t \in Threads : CoreWrite(t) /\ UNCHANGED hist
    \/ \E t \in Threads : Return(t) /\ UNCHANGED hist

\* the steps of a call that wait for nothing
Runs(t) ==
    (MergeStore(t) \/ MergeUnlock(t) \/ AllLabelsPerm(t) \/ RangeTemp(t)
        \/ TempRUnlock(t) \/ CoreWrite(t)) /\ UNCHANGED hist

\* the steps of a call that wait for the mutex of the temporary labels
Acquires(t) ==
    (TempLock(t) \/ TempRLock(t) \/ LockedReset(t)) /\ UNCHANGED hist

LiveSpec ==
    /\ Init
    /\ [][LiveNext]_vars
    /\ \A t \in Threads : WF_vars(Runs(t)) /\ SF_vars(Acquires(t))

\* =================================================================== claims
\* the labels object of a field set: the value of its aggregate labels field
RecordLabels(fields) ==
    LET i == CHOOSE i \in 1 .. Len(fields) : fields[i].Key = labelsKey
    IN  fields[i].Obj

\* the labels a call passes: for each key (prefix stripped) the value of the
\* last label field with that key
LabelsPassed(args) ==
    { <<Tail(args[i].Key), args[i].String>> :
        i \in { i \in 1 .. Len(args) :
                  /\ isLabelField(args[i])
                  /\ \A j \in (i + 1) .. Len(args) :
                        ~(isLabelField(args[j]) /\ args[j].Key = args[i].Key) } }

\* C1: one goroutine, so no two Writes overlap. The labels object of every
\* record handed to the wrapped core is the decorator's permanent labels
\* overlaid with the labels passed to that call; a label passed to the Write
\* that returned before it on the same decorator, and not to this one nor
\* permanent, is not in it; every permanent label's key is in it, with the
\* permanent value unless the call passes the key.
C1_SequentialIsolation ==
    \A t \in Threads :
       Returned(thr[t], "Write") =>
          LET c == thr[t].core
              rec == RecordLabels(thr[t].fields)
              own == LabelsPassed(thr[t].args)
          IN  /\ rec = Overlay(permStore(c), own)
              /\ hist.core = c =>
                    \A p \in hist.lbls \ (own \cup permStore(c)) : p \notin rec
              /\ \A p \in permStore(c) :
                    /\ p[1] \in Keys(rec)
                    /\ p[1] \notin Keys(own) => p \in rec

\* C1's case: a Write returned on a decorator with permanent labels after a
\* Write on the same decorator that passed a label this one does not pass
C1_Witness ==
    \E t \in Threads :
       /\ Returned(thr[t], "Write")
       /\ hist.core = thr[t].core
       /\ permStore(thr[t].core) # {}
       /\ permStore(thr[t].core) \subseteq RecordLabels(thr[t].fields)
       /\ \E p \in hist.lbls :
             /\ p[1] \notin Keys(LabelsPassed(thr[t].args))
             /\ p \notin RecordLabels(thr[t].fields)

\* every label field of a call as a pair, prefix stripped, whatever its place
LabelPairs(args) ==
    { <<Tail(args[i].Key), args[i].String>> :
        i \in { i \in 1 .. Len(args) : isLabelField(args[i]) } }

\* the label fields of a call have pairwise distinct keys
DistinctLabelKeys(args) ==
    \A i, j \in 1 .. Len(args) :
       (isLabelField(args[i]) /\ isLabelField(args[j]) /\ args[i].Key = args[j].Key)
          => i = j

\* the permanent labels and the pairs of a call, the call's winning a key
UnionCallWins(perm, pairs) ==
    {p \in perm : p[1] \notin Keys(pairs)} \cup pairs

\* C2 as stated: for a Write running alone, the labels object is the union of
\* the permanent labels and of the call's label fields (prefix stripped), the
\* call's value winning a key in both: a function of the set of the call's
\* label fields, so the same for every ordering of them.
C2_UnionAnyOrder ==
    \A t \in Threads :
       Returned(thr[t], "Write") =>
          RecordLabels(thr[t].fields)
             = UnionCallWins(permStore(thr[t].core), LabelPairs(thr[t].args))

\* C2 amended: the same, for a call whose label fields have pairwise
\* distinct keys.
C2_UnionDistinctKeys ==
    \A t \in Threads :
       (Returned(thr[t], "Write") /\ DistinctLabelKeys(thr[t].args)) =>
          RecordLabels(thr[t].fields)
             = UnionCallWins(permStore(thr[t].core), LabelPairs(thr[t].args))

\* C2's case: a Write returned that passed two labels with different keys,
\* one of them a key of the permanent labels with another value
C2_Witness ==
    \E t \in Threads :
       /\ Returned(thr[t], "Write")
       /\ DistinctLabelKeys(thr[t].args)
       /\ Cardinality(LabelPairs(thr[t].args)) = 2
       /\ \E p \in permStore(thr[t].core), q \in LabelPairs(thr[t].args) :
             p[1] = q[1] /\ p[2] # q[2] /\ q \in RecordLabels(thr[t].fields)
       /\ isLabelField(thr[t].args[1]) /\ thr[t].args[1].Key[2] = "b"

RECURSIVE Ancestors(_)
\* the decorators a decorator was derived from, nearest first
Ancestors(c) ==
    IF cores[c].parent = 0 THEN <<>>
    ELSE <<cores[c].parent>> \o Ancestors(cores[c].parent)

\* the decorators on the way from ancestor a, left out, down to c
Nearer(a, c) ==
    {c} \cup {x \in CoreIds :
                \E i \in 1 .. Len(Ancestors(c)) :
                   /\ Ancestors(c)[i] = x
                   /\ \E j \in (i + 1) .. Len(Ancestors(c)) : Ancestors(c)[j] = a}

\* C3 as stated: every permanent label of an ancestor has its key in the
\* labels object of every record written through a descendant, with the
\* ancestor's value unless a derivation nearer to the descendant, or the
\* Write call itself, passes that key.
C3_Inheritance ==
    \A t \in Threads :
       Returned(thr[t], "Write") =>
          LET c == thr[t].core
              rec == RecordLabels(thr[t].fields)
          IN  \A i \in 1 .. Len(Ancestors(c)) :
                 LET a == Ancestors(c)[i]
                 IN  \A p \in permStore(a) :
                        /\ p[1] \in Keys(rec)
                        /\ \/ p \in rec
                           \/ \E x \in Nearer(a, c) : p[1] \in Keys(cores[x].given)
                           \/ p[1] \in Keys(LabelsPassed(thr[t].args))

\* C4: no two decorators hold the same *labels, as permanent or as temporary
\* set, and no step changes the permanent labels of a decorator that exists.
NoSharedLabels ==
    \A c, d \in CoreIds :
       /\ cores[c].permLabels # cores[d].tempLabels
       /\ c # d => /\ cores[c].permLabels # cores[d].permLabels
                   /\ cores[c].tempLabels # cores[d].tempLabels

PermFixed ==
    \A c \in CoreIds :
       /\ cores'[c].permLabels = cores[c].permLabels
       /\ heap'[cores[c].permLabels] = heap[cores[c].permLabels]

C4_CopyIsolation == [](NoSharedLabels) /\ [][PermFixed]_vars

\* C4's case: a parent with two children of different permanent labels, one
\* child with a child of its own or a Write returned on the parent
C4_Witness ==
    \E c, d \in CoreIds :
       /\ c # d
       /\ cores[c].parent = 1 /\ cores[d].parent = 1
       /\ permStore(c) # permStore(d)
       /\ \E t \in Threads : Returned(thr[t], "Write") /\ thr[t].core = 1

\* C5: a With on decorator c leaves c as it was (its fields, its permanent
\* and its temporary labels); the child has c's configuration and an empty
\* temporary set of its own, and every permanent label of the child is a
\* permanent label of c or a label passed to this With.
WithStep(t) ==
    /\ thr[t].pc = "idle"
    /\ Returned(thr'[t], "With")

C5_WithFrame ==
    [][\A t \in Threads :
          WithStep(t) =>
             LET c == thr'[t].core
                 n == thr'[t].child
             IN  /\ cores'[c] = cores[c]
                 /\ heap'[cores[c].permLabels] = heap[cores[c].permLabels]
                 /\ heap'[cores[c].tempLabels] = heap[cores[c].tempLabels]
                 /\ n = Len(cores) + 1 /\ Len(cores') = n
                 /\ cores'[n].config = cores[c].config
                 /\ cores'[n].tempLabels # cores[c].tempLabels
                 /\ heap'[cores'[n].tempLabels] = {}
                 /\ heap'[cores'[n].permLabels]
                       = Overlay(heap[cores[c].permLabels], LabelsPassed(thr'[t].args))
                 /\ heap'[cores'[n].permLabels]
                       \subseteq (heap[cores[c].permLabels]
                                     \cup LabelsPassed(thr'[t].args))]_vars

\* C5's case: With returned a child, and ran while a Write on the parent had
\* put its labels into the parent's temporary set, which are not the child's
C5_Witness ==
    \E t \in Threads :
       /\ Returned(thr[t], "With")
       /\ thr[t].seen # {}
       /\ thr[t].seen \cap permStore(thr[t].child) = {}
       /\ cores[thr[t].child].config = cores[thr[t].core].config
       /\ \E u \in Threads : InWrite(thr[u]) /\ thr[u].core = thr[t].core

\* the Writes on decorator c that have taken their snapshot of the labels
\* and have not reset the temporary set yet
Snapshotted(c) ==
    {u \in Threads : thr[u].op = "Write" /\ thr[u].pc = "built" /\ thr[u].core = c}

\* C6 as stated: when a Write is about to reset the temporary set of its
\* decorator, every label in that set is in the snapshot of a Write whose
\* record is yet to be handed to the wrapped core: no label is reset away
\* that no record carries.
C6_NoLabelLost ==
    \A t \in Threads :
       (thr[t].op = "Write" /\ thr[t].pc = "built") =>
          tempStore(thr[t].core)
             \subseteq UNION {thr[u].all : u \in Snapshotted(thr[t].core)}

\* the labels passed to the With calls that made decorator c and its ancestors
GivenTo(c) ==
    cores[c].given
       \cup UNION {cores[Ancestors(c)[i]].given : i \in 1 .. Len(Ancestors(c))}

\* the labels passed to the Writes on decorator c that are running
PassedInFlight(c) ==
    UNION {thr[u].lbls : u \in {u \in Threads : InWrite(thr[u]) /\ thr[u].core = c}}

SnapshotStep(t) ==
    /\ thr[t].op = "Write" /\ thr[t].pc = "perm"
    /\ thr'[t].pc = "built"

\* C7: the permanent labels of a decorator are labels passed to the With
\* calls that made it and its ancestors, and every label of the record a
\* Write on decorator X builds is a permanent label of X or was passed to a
\* Write on X that is running at that moment. So a label passed only to a
\* Write W on X is in no record of another decorator, and in no record of a
\* Write on X that starts after W has returned.
C7_NoLeak ==
    /\ [](\A c \in CoreIds : permStore(c) \subseteq GivenTo(c))
    /\ [][\A t \in Threads :
             SnapshotStep(t) =>
                RecordLabels(thr'[t].fields)
                   \subseteq (permStore(thr[t].core)
                                 \cup PassedInFlight(thr[t].core))]_vars

\* C7's case: a Write returned on one decorator while a Write that passed a
\* label has put it into the temporary set of that decorator's parent, child
\* or sibling; the label is not in the record
C7_Witness ==
    \E t, u \in Threads :
       /\ Returned(thr[t], "Write")
       /\ thr[u].op = "Write" /\ thr[u].pc \in {"merged", "perm", "built"}
       /\ thr[u].core # thr[t].core
       /\ \/ cores[thr[u].core].parent = thr[t].core
          \/ cores[thr[t].core].parent = thr[u].core
          \/ cores[thr[u].core].parent = cores[thr[t].core].parent
       /\ thr[u].lbls # {}
       /\ thr[u].lbls \subseteq tempStore(thr[u].core)
       /\ thr[u].lbls \cap RecordLabels(thr[t].fields) = {}

\* the wrapped core's level predicate, for the entry of a frame
LevelOn(f) == f.ent.Level >= cores[f.core].Core.level

\* C8: Check registers the decorator on the checked entry, after the cores
\* already on it, if and only if the wrapped core's level predicate holds of
\* the entry's level, and returns the checked entry it was given otherwise;
\* Write runs only for entries whose level is enabled.
C8_LevelGating ==
    \A t \in Threads :
       /\ Returned(thr[t], "Check") =>
             /\ Registered(thr[t].ce, thr[t].core) <=> LevelOn(thr[t])
             /\ LevelOn(thr[t]) =>
                   /\ thr[t].ce.cores = Append(thr[t].ce0.cores, thr[t].core)
                   /\ thr[t].ce.Entry
                         = IF thr[t].ce0 = NilCE THEN thr[t].ent ELSE thr[t].ce0.Entry
             /\ ~LevelOn(thr[t]) => thr[t].ce = thr[t].ce0
       /\ thr[t].op = "Write" => LevelOn(thr[t])

\* C8's case: Check returned for an entry below the wrapped core's level,
\* given a checked entry that holds another core
C8_Witness ==
    \E t \in Threads :
       /\ Returned(thr[t], "Check")
       /\ ~LevelOn(thr[t])
       /\ thr[t].ce0 # NilCE
       /\ thr[t].ce = thr[t].ce0

\* C9: a Write that returned has called the wrapped core's Write once and
\* returns what that call returned; Sync returns what the wrapped core's Sync
\* returned and writes nothing; With and Check return no error.
C9_ErrorsUnchanged ==
    \A t \in Threads :
       thr[t].pc = "returned" =>
          /\ thr[t].op = "Write" =>
                /\ thr[t].nwrite = 1
                /\ thr[t].berr \in BackendResults
                /\ thr[t].ret = thr[t].berr
          /\ thr[t].op = "Sync" =>
                /\ thr[t].nwrite = 0
                /\ thr[t].berr \in BackendResults
                /\ thr[t].ret = thr[t].berr
          /\ thr[t].op \in {"With", "Check"} =>
                thr[t].ret = "none" /\ thr[t].nwrite = 0

\* C9's case: the wrapped core's Write failed
C9_Witness ==
    \E t \in Threads :
       /\ Returned(thr[t], "Write")
       /\ thr[t].berr = "EIO"
       /\ thr[t].ret = "EIO"

\* the fields of a field set that have the key, in their order
WithKey(fields, key) == SelectSeq(fields, LAMBDA f : f.Key = key)

\* C10: for each reserved stanza key that a field passed to Write has, the
\* fields with that key handed to the wrapped core are the ones passed,
\* unchanged and in their order, and no other.
C10_StanzaKept ==
    \A t \in Threads :
       Returned(thr[t], "Write") =>
          \A key \in StanzaKeys :
             HasKey(thr[t].args, key) =>
                WithKey(thr[t].fields, key) = WithKey(thr[t].args, key)

\* C10's case: the call passes a stanza of each reserved key where Write
\* would add all three: the caller is defined, the level is an error's, all
\* errors are reported and the service is named
C10_Witness ==
    \E t \in Threads :
       /\ Returned(thr[t], "Write")
       /\ \A key \in StanzaKeys : HasKey(thr[t].args, key)
       /\ thr[t].ent.Caller.Defined
       /\ thr[t].ent.Level >= ErrorLevel
       /\ cores[thr[t].core].config.ReportAllErrors
       /\ cores[thr[t].core].config.ServiceName # ""
       /\ Len(thr[t].fields) = Len(thr[t].args) + 1

\* the Writes that returned with all errors reported, no service name, and an
\* entry at error level or above
FallbackCase(f) ==
    /\ Returned(f, "Write")
    /\ cores[f.core].config.ReportAllErrors
    /\ cores[f.core].config.ServiceName = ""
    /\ f.ent.Level >= ErrorLevel

UnknownService(f) == ServiceContext("unknown", cores[f.core].config.ServiceVersion)

\* C11 as stated: in the fallback case the field set handed to the wrapped
\* core has exactly one error-context field and exactly one service-context
\* field, which is the one built with the name "unknown".
C11_Fallback ==
    \A t \in Threads :
       FallbackCase(thr[t]) =>
          /\ Len(WithKey(thr[t].fields, contextKey)) = 1
          /\ WithKey(thr[t].fields, serviceContextKey) = <<UnknownService(thr[t])>>

\* C11 amended: in the fallback case the field set has exactly one
\* service-context field, built with the name "unknown", if the call passes
\* no service-context field, and exactly one error-context field if the entry
\* has defined caller information and the call passes no error-context field.
C11_FallbackUnlessPassed ==
    \A t \in Threads :
       FallbackCase(thr[t]) =>
          /\ ~HasKey(thr[t].args, serviceContextKey) =>
                WithKey(thr[t].fields, serviceContextKey) = <<UnknownService(thr[t])>>
          /\ (thr[t].ent.Caller.Defined /\ ~HasKey(thr[t].args, contextKey)) =>
                Len(WithKey(thr[t].fields, contextKey)) = 1

\* C11's case: the fallback case with a defined caller and no reserved key
\* passed; the record has the error context and the "unknown" service context
C11_Witness ==
    \E t \in Threads :
       /\ FallbackCase(thr[t])
       /\ thr[t].ent.Caller.Defined
       /\ \A key \in StanzaKeys : ~HasKey(thr[t].args, key)
       /\ HasKey(thr[t].fields, contextKey)
       /\ WithKey(thr[t].fields, serviceContextKey) = <<UnknownService(thr[t])>>

\* the header line "goroutine 1 [running]:"
HeaderLine == <<"goroutine", " ", "1", " ", "[running]:">>

\* a line that is one token without white space gets "(...)" appended
Marked(line) ==
    IF Len(line) = 1 /\ line[1] \notin Spaces THEN line \o <<"(...)">> ELSE line

\* C12: when the entry's stack is not empty, the entry handed to the wrapped
\* core has an empty stack and as message the lines of the original message,
\* an empty line, the header line and the lines of the stack, each line that
\* is one token without white space with "(...)" appended and every other
\* line as it was; when the stack is empty the entry is handed over as it is.
C12_StackRewrite ==
    \A t \in Threads :
       Returned(thr[t], "Write") =>
          LET ent == thr[t].ent
              sent == thr[t].sent
          IN  /\ sent.Level = ent.Level /\ sent.Caller = ent.Caller
              /\ ent.Stack = EmptyText => sent = ent
              /\ ent.Stack # EmptyText =>
                    /\ sent.Stack = EmptyText
                    /\ sent.Message
                          = ent.Message \o << <<>>, HeaderLine >>
                               \o [i \in 1 .. Len(ent.Stack) |-> Marked(ent.Stack[i])]

\* C12's case: message "boom" with stack "main.foo\nmain.bar" was handed over
\* as "boom\n\ngoroutine 1 [running]:\nmain.foo(...)\nmain.bar(...)"
C12_Witness ==
    \E t \in Threads :
       /\ Returned(thr[t], "Write")
       /\ thr[t].ent.Message = Boom /\ thr[t].ent.Stack = Stack2
       /\ thr[t].sent.Stack = EmptyText
       /\ thr[t].sent.Message
             = << <<"boom">>, <<>>, HeaderLine,
                  <<"main.foo", "(...)">>, <<"main.bar", "(...)">> >>

\* the key starts with "labels."
LabelKey(key) == Len(key) >= 2 /\ key[1] = "labels"

NoLabelKey(fields) == \A i \in 1 .. Len(fields) : ~LabelKey(fields[i].Key)

C13_WitnessEmpty ==
    \E t \in Threads :
       /\ Returned(thr[t], "Write")
       /\ permStore(thr[t].core) = {}
       /\ NoLabelKey(thr[t].args)
       /\ WithKey(thr[t].fields, labelsKey) = <<labelsField({})>>

\* the fields whose key does not start with "labels.", in their order
NonLabel(fields) == SelectSeq(fields, LAMBDA f : ~LabelKey(f.Key))

\* the keys of the fields Write adds
InjectedKeys == StanzaKeys \cup {labelsKey}

\* C14: extractLabels returns the fields that are no label fields, as they
\* are and in their order, and for every key of a label field (prefix
\* stripped) the value of the last label field with that key; With hands
\* exactly those fields on, and in the field set of a Write they come first
\* and every field after them is one that Write added; the fields passed are
\* what they were.
C14_ExtractPartitions ==
    \A t \in Threads :
       LET f == thr[t]
           n == Len(NonLabel(f.args))
       IN  /\ Returned(f, "With") =>
                 /\ f.fields = NonLabel(f.args)
                 /\ f.lbls = LabelsPassed(f.args)
           /\ Returned(f, "Write") =>
                 /\ f.lbls = LabelsPassed(f.args)
                 /\ Len(f.fields) > n
                 /\ SubSeq(f.fields, 1, n) = NonLabel(f.args)
                 /\ \A i \in (n + 1) .. Len(f.fields) : f.fields[i].Key \in InjectedKeys
           /\ f.op \in {"With", "Write"} =>
                 \A p, q \in f.lbls : p[1] = q[1] => p = q

\* C14's case: the call passed a label field, another field, and a label
\* field with the key of the first and another value, which is the value kept
C14_Witness ==
    \E t \in Threads :
       /\ Returned(thr[t], "Write")
       /\ \E i, j, k \in 1 .. Len(thr[t].args) :
             /\ i < j /\ j < k
             /\ LabelKey(thr[t].args[i].Key)
             /\ ~LabelKey(thr[t].args[j].Key)
             /\ thr[t].args[k].Key = thr[t].args[i].Key
             /\ thr[t].args[k].String # thr[t].args[i].String
             /\ thr[t].lbls = {<<Tail(thr[t].args[k].Key), thr[t].args[k].String>>}
             /\ thr[t].fields[1] = thr[t].args[j]

\* the fields Write put after the fields of the call that are no label fields
Appended(f) ==
    SubSeq(f.fields, Len(NonLabel(f.args)) + 1, Len(f.fields))

\* C15: Write appends an error-context field, built from the entry's caller,
\* if and only if all errors are reported, the entry is at error level or
\* above, its caller is defined and no field passed has the error-context
\* key; below error level, and when not all errors are reported, it appends
\* no error-context field and no service context of the name "unknown".
C15_ErrorReportIff ==
    \A t \in Threads :
       Returned(thr[t], "Write") =>
          LET f == thr[t]
              config == cores[f.core].config
              atError == f.ent.Level >= ErrorLevel
          IN  /\ HasKey(Appended(f), contextKey)
                    <=> /\ config.ReportAllErrors
                        /\ atError
                        /\ f.ent.Caller.Defined
                        /\ ~HasKey(f.args, contextKey)
              /\ HasKey(Appended(f), contextKey) =>
                    WithKey(Appended(f), contextKey)
                       = <<ErrorReport(f.ent.Caller.PC, f.ent.Caller.File,
                                       f.ent.Caller.Line, TRUE)>>
              /\ (~atError \/ ~config.ReportAllErrors) =>
                    \A i \in 1 .. Len(Appended(f)) :
                       /\ Appended(f)[i].Key # contextKey
                       /\ Appended(f)[i] # UnknownService(f)

\* C15's case: an entry below error level with a defined caller was written
\* with all errors reported and no service name, and nothing but the labels
\* and the source location was appended
C15_Witness ==
    \E t \in Threads :
       /\ Returned(thr[t], "Write")
       /\ cores[thr[t].core].config.ReportAllErrors
       /\ cores[thr[t].core].config.ServiceName = ""
       /\ thr[t].ent.Level < ErrorLevel
       /\ thr[t].ent.Caller.Defined
       /\ \A key \in StanzaKeys : ~HasKey(thr[t].args, key)
       /\ Len(Appended(thr[t])) = 2

\* C15's other case: the error context was appended
C15_WitnessAppended ==
    \E t \in Threads :
       /\ Returned(thr[t], "Write")
       /\ HasKey(Appended(thr[t]), contextKey)
       /\ ~HasKey(thr[t].args, contextKey)

\* no goroutine is inside Lock..Unlock of a *labels while another one is
\* inside Lock..Unlock or RLock..RUnlock of it
MutualExclusion ==
    \A x \in 1 .. Len(heap) :
       /\ Cardinality(Writers(x)) <= 1
       /\ Writers(x) # {} => Readers(x) = {}

\* all of the labels or none of them
AllOrNone(lbls, snapshot) == lbls \subseteq snapshot \/ lbls \cap snapshot = {}

\* the Writes that have taken their snapshot in LockSpec
HasSnapshot(f) == f.op = "Write" /\ f.pc \in {"built", "reset", "returned"}

\* C16 as stated: the sections under the mutex of a *labels exclude each
\* other, writers all others, and the snapshot of a Write has, of the labels
\* every other Write running on the decorator stored, all or none.
C16_AllOrNone ==
    /\ MutualExclusion
    /\ \A t \in Threads :
          HasSnapshot(thr[t]) =>
             \A lbls \in thr[t].seen : AllOrNone(lbls, thr[t].all)

\* no key of lbls is a key of a permanent label of the decorator of f, of a
\* label f passed, or of a label of another Write beside f
KeysApart(lbls, f) ==
    /\ Keys(lbls) \cap Keys(permStore(f.core)) = {}
    /\ Keys(lbls) \cap Keys(f.lbls) = {}
    /\ \A other \in f.seen \ {lbls} : Keys(lbls) \cap Keys(other) = {}

\* C16 amended: the same, of the labels of every other Write whose keys are
\* keys of no permanent label and of no label passed to another of the
\* Writes running on the decorator.
C16_AllOrNoneKeysApart ==
    /\ MutualExclusion
    /\ \A t \in Threads :
          HasSnapshot(thr[t]) =>
             \A lbls \in thr[t].seen :
                KeysApart(lbls, thr[t]) => AllOrNone(lbls, thr[t].all)

\* C16's case: a Write took its snapshot beside a Write that stored two
\* labels of keys apart, and the snapshot has both; another goroutine holds
\* or has held the mutex meanwhile
C16_Witness ==
    \E t \in Threads :
       /\ HasSnapshot(thr[t])
       /\ \E lbls \in thr[t].seen :
             /\ Cardinality(lbls) = 2
             /\ KeysApart(lbls, thr[t])
             /\ lbls \subseteq thr[t].all

\* C17: the labels of the record a Write builds are the permanent labels
\* overlaid with the temporary set of the decorator as it is when the
\* snapshot is taken, whichever calls stored the labels in it; so there is an
\* interleaving of two Writes on one decorator in which the record of one
\* carries the label passed only to the other (C17_Witness is reached).
C17_SnapshotOfSharedSet ==
    [][\A t \in Threads :
          SnapshotStep(t) =>
             RecordLabels(thr'[t].fields)
                = Overlay(permStore(thr[t].core), tempStore(thr[t].core))]_vars

\* C17's case: two Writes run on one decorator, each passed one label, of
\* different keys, and the record built for one carries the label of the
\* other, which is no permanent label
C17_Witness ==
    \E t, u \in Threads :
       /\ t # u
       /\ thr[t].op = "Write" /\ thr[t].pc \in {"built", "reset", "returned"}
       /\ InWrite(thr[u]) /\ thr[u].core = thr[t].core
       /\ Cardinality(thr[t].lbls) = 1 /\ Cardinality(thr[u].lbls) = 1
       /\ Keys(thr[t].lbls) \cap Keys(thr[u].lbls) = {}
       /\ thr[u].lbls \cap permStore(thr[t].core) = {}
       /\ thr[u].lbls \subseteq RecordLabels(thr[t].fields)

\* the goroutine holds the mutex of a shared *labels
Holding(t) == thr[t].pc \in {"locked", "rlocked"}

\* the goroutine is in a call that has not returned
Running(t) == thr[t].pc \notin {"idle", "returned"}

\* C18: every call returns, and a goroutine that holds the mutex of a shared
\* *labels waits for no mutex: its next step can be taken.
C18_EveryCallReturns ==
    /\ \A t \in Threads : Running(t) ~> (thr[t].pc = "returned")
    /\ [](\A t \in Threads : Holding(t) => ENABLED Runs(t))

\* C18's case: a goroutine waits for the mutex of the temporary labels that
\* the other one holds, on a decorator that With derived
C18_Witness ==
    \E t, u \in Threads :
       /\ thr[t].op = "Write" /\ thr[t].pc \in {"called", "perm", "built"}
       /\ Holding(u)
       /\ thr[u].core = thr[t].core
       /\ cores[thr[t].core].parent = 1
       /\ ~ENABLED Acquires(t)

\* the permanent labels of a decorator are its parent's overlaid with the
\* labels passed to the With that made it: what they were from the start
PermAsMade(c) ==
    permStore(c) = IF cores[c].parent = 0 THEN {}
                   ELSE Overlay(permStore(cores[c].parent), cores[c].given)

\* C19: with one goroutine, the temporary set of the decorator is empty when
\* the wrapped core's Write is called and when Write has returned, with an
\* error as without, and the permanent set is what it was; the record of a
\* Write after one that returned an error is the permanent labels overlaid
\* with its own, with no label that was passed only to the failed call.
C19_CleanAfterError ==
    /\ \A c \in CoreIds : PermAsMade(c)
    /\ (\A u \in Threads : thr[u].pc \in {"idle", "returned"}) =>
          \A c \in CoreIds : tempStore(c) = {}
    /\ \A t \in Threads :
       /\ (thr[t].op = "Write" /\ thr[t].pc \in {"reset", "returned"}) =>
             tempStore(thr[t].core) = {}
       /\ (Returned(thr[t], "Write") /\ hist.ret = "EIO" /\ hist.core = thr[t].core) =>
             LET rec == RecordLabels(thr[t].fields)
                 own == LabelsPassed(thr[t].args)
             IN  /\ rec = Overlay(permStore(thr[t].core), own)
                 /\ \A p \in hist.lbls \ (own \cup permStore(thr[t].core)) : p \notin rec

\* C19's case: a Write returned after a Write on the same decorator that
\* passed another label and returned the wrapped core's error
C19_Witness ==
    \E t \in Threads :
       /\ Returned(thr[t], "Write")
       /\ hist.ret = "EIO" /\ hist.core = thr[t].core
       /\ permStore(thr[t].core) # {}
       /\ \E p \in hist.lbls :
             /\ p[1] \notin Keys(LabelsPassed(thr[t].args))
             /\ p \notin RecordLabels(thr[t].fields)

\* C20: when no field passed to Write has a reserved stanza key, the field
\* set handed to the wrapped core has at most one field of each reserved
\* key, and with a service name exactly one service context, the one built
\* from the service name and version.
C20_OneStanzaPerKey ==
    \A t \in Threads :
       (Returned(thr[t], "Write") /\ \A key \in StanzaKeys : ~HasKey(thr[t].args, key)) =>
          LET config == cores[thr[t].core].config
          IN  /\ \A key \in StanzaKeys : Len(WithKey(thr[t].fields, key)) <= 1
              /\ config.ServiceName # "" =>
                    WithKey(thr[t].fields, serviceContextKey)
                       = <<ServiceContext(config.ServiceName, config.ServiceVersion)>>

\* C20's case: an error with a defined caller was written with all errors
\* reported and a service name, no reserved key passed: the record has the
\* three stanzas, each once
C20_Witness ==
    \E t \in Threads :
       /\ Returned(thr[t], "Write")
       /\ \A key \in StanzaKeys : ~HasKey(thr[t].args, key)
       /\ cores[thr[t].core].config.ReportAllErrors
       /\ cores[thr[t].core].config.ServiceName = "svc"
       /\ thr[t].ent.Level >= ErrorLevel /\ thr[t].ent.Caller.Defined
       /\ \A key \in StanzaKeys : Len(WithKey(thr[t].fields, key)) = 1
====
